---- MODULE Spec2Model ----
(***************************************************************************)
(* State-machine model of the LNA path proposer (propose_lna) and of the   *)
(* LNA density evaluator (lna_density2) of stemr.                          *)
(*                                                                         *)
(* Numbers.  The log scale (drift, diffusion, draws, log_lna) is modelled  *)
(* by integers.  The natural scale (nat_lna, c_incid, the compartment      *)
(* volumes) is fixed point with denominator Den, so that exp(x) - 1 keeps  *)
(* its sign for x < 0.  Values are finite: IEEE NaN and infinity are not   *)
(* modelled.  Indices held in j are the 0-based indices of the C++ code;   *)
(* TLA+ sequences are 1-based, so element j of the code is [j + 1] here.   *)
(* A matrix is a sequence of rows, M[r][c].                                *)
(***************************************************************************)
EXTENDS Integers, Sequences, FiniteSets, TLC

VARIABLES fn, pc, lna_pars, param_update_inds, stoich_matrix, path,
          j, current_params, ode_pars, init_state, init_volumes,
          lna_state_vec, lna_drift, lna_diffusion, log_lna, nat_lna,
          c_incid, lna_path, draws, residual_process, res_vec, lna_log_lik,
          result, last_call, n_set, n_int, r_error

vars == <<fn, pc, lna_pars, param_update_inds, stoich_matrix, path,
          j, current_params, ode_pars, init_state, init_volumes,
          lna_state_vec, lna_drift, lna_diffusion, log_lna, nat_lna,
          c_incid, lna_path, draws, residual_process, res_vec, lna_log_lik,
          result, last_call, n_set, n_int, r_error>>

(***************************************************************************)
(* Bounds of the model.                                                    *)
(***************************************************************************)
\* number of points of the time grid (lna_times.n_elem)
NTimes == 3
\* denominator of the fixed-point natural scale
Den == 100

(***************************************************************************)
(* Inputs of a call.                                                       *)
(***************************************************************************)
\* 0-based index of the first compartment-volume column of a parameter row
init_start == 1

\* the time grid: strictly increasing interval endpoints
lna_times == [i \in 1..NTimes |-> i - 1]

\* stoichiometry / flow matrices: rows = compartments, columns = events
StoichSet == { << <<-1, 0>>, <<1, -1>> >>,
               << <<1, 1>>, <<0, -1>> >>,
               << <<-1, -1>>, <<0, 1>> >> }

\* initial compartment volumes (natural scale), non-negative
InitVolSet == { <<2 * Den, Den>>, <<0, 3 * Den>> }

\* parameter tables: one row per time point, columns
\* <<theta, volume_1 .. volume_n_comps, covariate>>.  Rows after the first
\* carry stale (negated) volume columns.
ParTable(varying, vol) ==
    [i \in 1..NTimes |->
        <<IF varying THEN 5 + i ELSE 5>>
        \o (IF i = 1 THEN vol ELSE [c \in 1..Len(vol) |-> 0 - vol[c]])
        \o <<IF varying THEN i ELSE 0>>]

ParTables == { ParTable(v, vol) : v \in BOOLEAN, vol \in InitVolSet }

FlagSet == [1..NTimes -> BOOLEAN]

\* what a standard-normal draw for one interval may be (one entry per event)
DrawCols == { <<0, 0>>, <<1, -1>>, <<-1, 1>> }

\* what the integration service may leave in the proposer's scratch buffer:
\* drift (n_events entries) followed by the diffusion matrix, column-major.
\* The diffusions are: zero; identity; one with factor ((2,0),(1,2)) whose
\* lower triangle came back wrong (asymmetric); one that is not positive
\* definite.
DriftSet == { <<0, 0>>, <<1, -1>> }
DiffSet  == { <<0, 0, 0, 0>>, <<1, 0, 0, 1>>, <<4, 7, 2, 5>>, <<1, 2, 2, 1>> }
IntegratorOut == { d \o m : d \in DriftSet, m \in DiffSet }

\* what the integration service may leave in the evaluator's buffer:
\* drift part (n_comps entries) followed by the residual part
DensityOut == { <<1, 2, 3, 4>>, <<0, 1, -1, 0>> }

\* path bundles handed to the evaluator
ResPathSet == { [i \in 1..NTimes |-> <<i - 1, 10 * i + k, 10 * i + k + 1>>] : k \in {6, 8} }

PathBundle(rp) ==
    [lna_path     |-> [i \in 1..NTimes |-> <<i - 1, 20 + i, 30 + i>>],
     res_path     |-> rp,
     drift        |-> [i \in 1..NTimes |-> <<40 + i, 50 + i>>],
     residual     |-> [i \in 1..NTimes |-> <<60 + i, 70 + i>>],
     diffusion    |-> [i \in 1..NTimes |-> << <<i, 0>>, <<0, i + 1>> >>],
     data_log_lik |-> 0 - 3]

PathSet == { PathBundle(rp) : rp \in ResPathSet }

NoPath == [lna_path |-> <<>>, res_path |-> <<>>, drift |-> <<>>,
           residual |-> <<>>, diffusion |-> <<>>, data_log_lik |-> 0]

(***************************************************************************)
(* Dimensions, as the functions compute them.                              *)
(***************************************************************************)
n_events == Len(stoich_matrix[1])
n_comps  == Len(stoich_matrix)
n_odes   == IF fn = "propose_lna" THEN n_events + n_events * n_events
                                  ELSE 2 * n_comps
n_times  == Len(lna_times)
init_end == init_start + n_comps
diff_start  == n_events
resid_start == n_comps
resid_end   == 2 * n_comps - 1

(***************************************************************************)
(* Vector and matrix helpers.                                              *)
(***************************************************************************)
Zeros(n) == [i \in 1..n |-> 0]

ZeroMat(r, c) == [i \in 1..r |-> Zeros(c)]

\* std::fill(v.begin(), v.end(), x)
Fill(v, x) == [i \in 1..Len(v) |-> x]

RECURSIVE SumTo(_, _)
SumTo(f, n) == IF n = 0 THEN 0 ELSE f[n] + SumTo(f, n - 1)

Dot(a, b) == SumTo([i \in 1..Len(a) |-> a[i] * b[i]], Len(a))

MatVec(M, v) == [r \in 1..Len(M) |-> Dot(M[r], v)]

VecAdd(a, b) == [i \in 1..Len(a) |-> a[i] + b[i]]

\* M.col(c) for a matrix held as rows
Col(M, c) == [r \in 1..Len(M) |-> M[r][c]]

\* M.t()
Transpose(M) == [c \in 1..Len(M[1]) |-> Col(M, c)]

\* std::copy(src.begin(), src.end(), dst.begin() + at): at is 0-based
CopyInto(dst, src, at) ==
    [i \in 1..Len(dst) |->
        IF i > at /\ i <= at + Len(src) THEN src[i - at] ELSE dst[i]]

\* elements first .. last (0-based, inclusive) of v
SubVec(v, first, last) == [i \in 1..(last - first + 1) |-> v[first + i]]

\* std::copy of a buffer range into an n x n arma::mat: column-major
ColMajor(buf, at, n) ==
    [r \in 1..n |-> [c \in 1..n |-> buf[at + (c - 1) * n + r]]]

(***************************************************************************)
(* Numerical primitives.                                                   *)
(***************************************************************************)
\* a symmetrization that was left out
symmatu_skipped(M) == M

\* arma::symmatu: reflect the upper triangle into the lower triangle
symmatu(M) ==
    [r \in 1..Len(M) |-> [c \in 1..Len(M) |-> IF r > c THEN M[c][r] ELSE M[r][c]]]

\* integer square root (rounded down) of n >= 0
ISqrt(n) == CHOOSE k \in 0..n : k * k <= n /\ (k + 1) * (k + 1) > n

\* One row of the lower Cholesky factor, left to right (LAPACK potrf, 'L'):
\* L holds the finished rows 1 .. i-1, row the finished entries of row i.
\* A pivot that is not positive makes the factorization fail: <<>>.
RECURSIVE CholBuildRow(_, _, _, _)
CholBuildRow(A, L, i, row) ==
    LET c == Len(row) + 1
        s == SumTo([m \in 1..(c - 1) |->
                       row[m] * (IF c = i THEN row[m] ELSE L[c][m])], c - 1)
    IN  IF c > i
            THEN row \o Zeros(Len(A) - i)
        ELSE IF c = i
            THEN IF A[i][i] - s <= 0
                    THEN <<>>
                    ELSE CholBuildRow(A, L, i, Append(row, ISqrt(A[i][i] - s)))
        ELSE CholBuildRow(A, L, i, Append(row, (A[i][c] - s) \div L[c][c]))

RECURSIVE CholRows(_, _)
CholRows(A, L) ==
    IF Len(L) = Len(A)
        THEN L
        ELSE LET row == CholBuildRow(A, L, Len(L) + 1, <<>>)
             IN  IF Len(row) = 0 THEN <<>> ELSE CholRows(A, Append(L, row))

\* arma::chol(A, "lower"): the lower factor, or <<>> when the decomposition
\* fails (arma::chol then throws std::runtime_error)
chol(A) == CholRows(A, <<>>)

chol_fails(A) == Len(chol(A)) = 0

\* exp(x) in fixed point with denominator Den, by repeated multiplication
\* with e = 2.718
RECURSIVE ExpFix(_)
ExpFix(x) ==
    IF x = 0 THEN Den
    ELSE IF x > 0 THEN (ExpFix(x - 1) * 2718) \div 1000
    ELSE (ExpFix(x + 1) * 1000) \div 2718

\* arma::exp(v) - 1
ExpMinusOne(v) == [i \in 1..Len(v) |-> ExpFix(v[i]) - Den]

\* v.elem(arma::find(v < 0)).zeros()
ClampNegative(v) == [i \in 1..Len(v) |-> IF v[i] < 0 THEN 0 ELSE v[i]]

\* the increment without the clamp of line 97
NatIncrementUnclamped(lg) == ExpMinusOne(lg)

\* lines 96-97: the natural-scale increment, clamped below by 0
NatIncrement(lg) == ClampNegative(ExpMinusOne(lg))

\* the volumes without the clamp of line 105
VolumesUnclamped(init, stoich, incid) == VecAdd(init, MatVec(stoich, incid))

\* lines 104-105: the compartment volumes implied by the cumulative incidence
Volumes(init, stoich, incid) == ClampNegative(VecAdd(init, MatVec(stoich, incid)))

\* a reload that ignores the update flag
ReloadParamsAlways(cur, pars, flags, jj) == pars[jj + 2]

\* lines 108-110: the parameter vector kept for the next interval
ReloadParams(cur, pars, flags, jj) == IF flags[jj + 2] THEN pars[jj + 2] ELSE cur

\* lna_path(arma::span(1, n_events), col) = v: rows 1 .. n_events of column
\* col (0-based) of the path matrix, whose row 0 holds the times
SetPathCol(P, col, v) ==
    [r \in 1..Len(P) |->
        IF r = 1 THEN P[r]
        ELSE [t \in 1..Len(P[r]) |-> IF t = col + 1 THEN v[r - 1] ELSE P[r][t]]]

\* CALL_INTEGRATE_STEM_LNA as the integrator sees it: the interval, the
\* tolerance, its parameter state and the buffer handed over
IntegrateCall(jj, tol, buf) ==
    [k |-> jj, t_L |-> lna_times[jj + 1], t_R |-> lna_times[jj + 2],
     tol |-> tol, pars |-> ode_pars, buf |-> buf]

NoCall == [k |-> 0 - 1, t_L |-> 0, t_R |-> 0, tol |-> "", pars |-> <<>>, buf |-> <<>>]

(***************************************************************************)
(* The state before a call: the inputs are chosen, nothing has run.        *)
(***************************************************************************)
Init ==
    /\ fn \in {"propose_lna", "lna_density2"}
    /\ lna_pars \in ParTables
    /\ param_update_inds \in FlagSet
    /\ stoich_matrix \in StoichSet
    /\ path \in (IF fn = "lna_density2" THEN PathSet ELSE {NoPath})
    /\ pc = "start"
    /\ j = 0
    /\ current_params = <<>>
    /\ ode_pars = <<>>
    /\ init_state = <<>>
    /\ init_volumes = <<>>
    /\ lna_state_vec = <<>>
    /\ lna_drift = <<>>
    /\ lna_diffusion = <<>>
    /\ log_lna = <<>>
    /\ nat_lna = <<>>
    /\ c_incid = <<>>
    /\ lna_path = <<>>
    /\ draws = <<>>
    /\ residual_process = <<>>
    /\ res_vec = <<>>
    /\ lna_log_lik = 0
    /\ result = <<>>
    /\ last_call = NoCall
    /\ n_set = 0
    /\ n_int = 0
    /\ r_error = ""

(***************************************************************************)
(* propose_lna                                                             *)
(***************************************************************************)
\* lines 34-68: everything before the interval loop
ProposeSetup ==
    /\ fn = "propose_lna" /\ pc = "start"
    /\ current_params' = lna_pars[1]
    /\ ode_pars' = current_params'
    /\ n_set' = n_set + 1
    /\ init_state' = SubVec(current_params', init_start, init_end - 1)
    /\ init_volumes' = init_state'
    /\ lna_state_vec' = Zeros(n_odes)
    /\ lna_drift' = Zeros(n_events)
    /\ lna_diffusion' = ZeroMat(n_events, n_events)
    /\ log_lna' = Zeros(n_events)
    /\ nat_lna' = Zeros(n_events)
    /\ c_incid' = Zeros(n_events)
    /\ lna_path' = <<lna_times>> \o ZeroMat(n_events, n_times)
    /\ \E cols \in [1..(n_times - 1) -> DrawCols] :
          draws' = [e \in 1..n_events |-> [t \in 1..(n_times - 1) |-> cols[t][e]]]
    /\ j' = 0
    /\ pc' = "loop"
    /\ UNCHANGED <<fn, lna_pars, param_update_inds, stoich_matrix, path,
                   residual_process, res_vec, lna_log_lik, result, last_call,
                   n_int, r_error>>

\* lines 71-79: the loop test, the reset of the scratch buffer and the
\* integration over [t_L, t_R]; out is what the integrator leaves
ProposeIntegrate(out) ==
    /\ fn = "propose_lna" /\ pc = "loop" /\ j < n_times - 1
    /\ last_call' = IntegrateCall(j, "0.001", Fill(lna_state_vec, 0))
    /\ lna_state_vec' = out
    /\ n_int' = n_int + 1
    /\ pc' = "transfer"
    /\ UNCHANGED <<fn, lna_pars, param_update_inds, stoich_matrix, path, j,
                   current_params, ode_pars, init_state, init_volumes,
                   lna_drift, lna_diffusion, log_lna, nat_lna, c_incid,
                   lna_path, draws, residual_process, res_vec, lna_log_lik,
                   result, n_set, r_error>>

\* lines 82-86: split the buffer and symmetrize the diffusion
ProposeTransfer ==
    /\ fn = "propose_lna" /\ pc = "transfer"
    /\ lna_drift' = SubVec(lna_state_vec, 0, n_events - 1)
    /\ lna_diffusion' = symmatu(ColMajor(lna_state_vec, diff_start, n_events))
    /\ pc' = "chol"
    /\ UNCHANGED <<fn, lna_pars, param_update_inds, stoich_matrix, path, j,
                   current_params, ode_pars, init_state, init_volumes,
                   lna_state_vec, log_lna, nat_lna, c_incid, lna_path, draws,
                   residual_process, res_vec, lna_log_lik, result, last_call,
                   n_set, n_int, r_error>>

\* line 90: the factorization succeeds
ProposeChol ==
    /\ fn = "propose_lna" /\ pc = "chol"
    /\ ~chol_fails(lna_diffusion)
    /\ log_lna' = VecAdd(lna_drift, MatVec(chol(lna_diffusion), Col(draws, j + 1)))
    /\ pc' = "increment"
    /\ UNCHANGED <<fn, lna_pars, param_update_inds, stoich_matrix, path, j,
                   current_params, ode_pars, init_state, init_volumes,
                   lna_state_vec, lna_drift, lna_diffusion, nat_lna, c_incid,
                   lna_path, draws, residual_process, res_vec, lna_log_lik,
                   result, last_call, n_set, n_int>>
    /\ UNCHANGED r_error

\* a handler that swallows the exception: the loop goes on with the stale
\* log_lna
ProposeCholFailSwallowed ==
    /\ fn = "propose_lna" /\ pc = "chol"
    /\ chol_fails(lna_diffusion)
    /\ r_error' = "chol(): decomposition failed"
    /\ pc' = "increment"
    /\ UNCHANGED <<fn, lna_pars, param_update_inds, stoich_matrix, path, j,
                   current_params, ode_pars, init_state, init_volumes,
                   lna_state_vec, lna_drift, lna_diffusion, log_lna, nat_lna,
                   c_incid, lna_path, draws, residual_process, res_vec,
                   lna_log_lik, result, last_call, n_set, n_int>>

\* lines 91-93: the factorization throws; forward_exception_to_r raises the
\* R error, which leaves propose_lna without returning
ProposeCholFail ==
    /\ fn = "propose_lna" /\ pc = "chol"
    /\ chol_fails(lna_diffusion)
    /\ r_error' = "chol(): decomposition failed"
    /\ pc' = "error"
    /\ UNCHANGED <<fn, lna_pars, param_update_inds, stoich_matrix, path, j,
                   current_params, ode_pars, init_state, init_volumes,
                   lna_state_vec, lna_drift, lna_diffusion, log_lna, nat_lna,
                   c_incid, lna_path, draws, residual_process, res_vec,
                   lna_log_lik, result, last_call, n_set, n_int>>

\* accumulate first, clamp the running sum afterwards
ProposeIncrementClampSum ==
    /\ fn = "propose_lna" /\ pc = "increment"
    /\ nat_lna' = ExpMinusOne(log_lna)
    /\ c_incid' = ClampNegative(VecAdd(c_incid, nat_lna'))
    /\ lna_path' = SetPathCol(lna_path, j + 1, c_incid')
    /\ pc' = "volumes"
    /\ UNCHANGED <<fn, lna_pars, param_update_inds, stoich_matrix, path, j,
                   current_params, ode_pars, init_state, init_volumes,
                   lna_state_vec, lna_drift, lna_diffusion, log_lna, draws,
                   residual_process, res_vec, lna_log_lik, result, last_call,
                   n_set, n_int, r_error>>

\* lines 96-101: increment, clamp, accumulate, store
ProposeIncrement ==
    /\ fn = "propose_lna" /\ pc = "increment"
    /\ nat_lna' = NatIncrement(log_lna)
    /\ c_incid' = VecAdd(c_incid, nat_lna')
    /\ lna_path' = SetPathCol(lna_path, j + 1, c_incid')
    /\ pc' = "volumes"
    /\ UNCHANGED <<fn, lna_pars, param_update_inds, stoich_matrix, path, j,
                   current_params, ode_pars, init_state, init_volumes,
                   lna_state_vec, lna_drift, lna_diffusion, log_lna, draws,
                   residual_process, res_vec, lna_log_lik, result, last_call,
                   n_set, n_int, r_error>>

\* lines 104-116 and the loop increment: volumes, parameter reload, copy of
\* the volumes into the parameters, push to the integrator
ProposeVolumes ==
    /\ fn = "propose_lna" /\ pc = "volumes"
    /\ init_volumes' = Volumes(init_state, stoich_matrix, c_incid)
    /\ current_params' =
          CopyInto(ReloadParams(current_params, lna_pars, param_update_inds, j),
                   init_volumes', init_start)
    /\ ode_pars' = current_params'
    /\ n_set' = n_set + 1
    /\ j' = j + 1
    /\ pc' = "loop"
    /\ UNCHANGED <<fn, lna_pars, param_update_inds, stoich_matrix, path,
                   init_state, lna_state_vec, lna_drift, lna_diffusion,
                   log_lna, nat_lna, c_incid, lna_path, draws,
                   residual_process, res_vec, lna_log_lik, result, last_call,
                   n_int, r_error>>

\* lines 120-121: the loop is over, return the draws and the transposed path
ProposeReturn ==
    /\ fn = "propose_lna" /\ pc = "loop" /\ ~(j < n_times - 1)
    /\ result' = [draws |-> draws, lna_path |-> Transpose(lna_path)]
    /\ pc' = "done"
    /\ UNCHANGED <<fn, lna_pars, param_update_inds, stoich_matrix, path, j,
                   current_params, ode_pars, init_state, init_volumes,
                   lna_state_vec, lna_drift, lna_diffusion, log_lna, nat_lna,
                   c_incid, lna_path, draws, residual_process, res_vec,
                   lna_log_lik, last_call, n_set, n_int, r_error>>

(***************************************************************************)
(* lna_density2                                                            *)
(***************************************************************************)
\* dmvtn(x, mu, sigma, true)[0]: log-density kernel of x under N(mu, sigma)
\* for a diagonal sigma, in fixed point with denominator Den
dmvtn(x, mu, sigma) ==
    0 - SumTo([i \in 1..Len(x) |->
                  ((x[i] - mu[i]) * (x[i] - mu[i]) * Den) \div sigma[i][i]], Len(x))

\* residual_path(row, arma::span(1, n_comps)): row is 0-based, the leading
\* column holds the time
ResidualValue(rp, row, n) == SubVec(rp[row + 1], 1, n)

\* an update that looks at the flag and row of the interval's end point
DensityParamsAhead(cur, pars, flags, jj) == IF flags[jj + 1] THEN pars[jj + 1] ELSE cur

\* lines 72-75: the parameter vector used for the interval that ends at jj
DensityParams(cur, pars, flags, jj) == IF flags[jj] THEN pars[jj] ELSE cur

\* a store that lands one row early
SetRowBefore(M, jj, v) == [i \in 1..Len(M) |-> IF i = jj THEN v ELSE M[i]]

\* line 81: residual_process.row(jj) = v
SetRow(M, jj, v) == [i \in 1..Len(M) |-> IF i = jj + 1 THEN v ELSE M[i]]

\* a buffer that keeps the integrator's own prediction
CopyResidualSkipped(buf, rv, at) == buf

\* lines 89-90: the residual part of the buffer is overwritten by the
\* path's residual value
CopyResidual(buf, rv, at) == CopyInto(buf, rv, at)

\* lines 35-62: everything before the interval loop
DensitySetup ==
    /\ fn = "lna_density2" /\ pc = "start"
    /\ current_params' = lna_pars[1]
    /\ ode_pars' = current_params'
    /\ n_set' = n_set + 1
    /\ lna_state_vec' = Zeros(n_odes)
    /\ res_vec' = Zeros(n_comps)
    /\ residual_process' = path.residual
    /\ lna_log_lik' = 0
    /\ j' = 1
    /\ pc' = "loop"
    /\ UNCHANGED <<fn, lna_pars, param_update_inds, stoich_matrix, path,
                   init_state, init_volumes, lna_drift, lna_diffusion,
                   log_lna, nat_lna, c_incid, lna_path, draws, result,
                   last_call, n_int, r_error>>

\* lines 65-78: the loop test, the parameter update for the interval
\* [t_{j-1}, t_j] and its integration; out is what the integrator leaves
DensityIntegrate(out) ==
    /\ fn = "lna_density2" /\ pc = "loop" /\ j < n_times
    /\ current_params' = DensityParams(current_params, lna_pars, param_update_inds, j)
    /\ ode_pars' = IF param_update_inds[j] THEN current_params' ELSE ode_pars
    /\ n_set' = IF param_update_inds[j] THEN n_set + 1 ELSE n_set
    /\ last_call' = [IntegrateCall(j - 1, "1.0", lna_state_vec) EXCEPT !.pars = ode_pars']
    /\ lna_state_vec' = out
    /\ n_int' = n_int + 1
    /\ pc' = "score"
    /\ UNCHANGED <<fn, lna_pars, param_update_inds, stoich_matrix, path, j,
                   init_state, init_volumes, lna_drift, lna_diffusion,
                   log_lna, nat_lna, c_incid, lna_path, draws,
                   residual_process, res_vec, lna_log_lik, result, r_error>>

\* lines 81-90 and the loop increment: store the conditional mean, score the
\* residual value, put the residual value back into the buffer
DensityScore ==
    /\ fn = "lna_density2" /\ pc = "score"
    /\ residual_process' =
          SetRow(residual_process, j, SubVec(lna_state_vec, resid_start, resid_end))
    /\ lna_log_lik' = lna_log_lik
          + dmvtn(ResidualValue(path.res_path, j, n_comps),
                  residual_process'[j + 1], path.diffusion[j + 1])
    /\ res_vec' = ResidualValue(path.res_path, j, n_comps)
    /\ lna_state_vec' = CopyResidual(lna_state_vec, res_vec', resid_start)
    /\ j' = j + 1
    /\ pc' = "loop"
    /\ UNCHANGED <<fn, lna_pars, param_update_inds, stoich_matrix, path,
                   current_params, ode_pars, init_state, init_volumes,
                   lna_drift, lna_diffusion, log_lna, nat_lna, c_incid,
                   lna_path, draws, result, last_call, n_set, n_int, r_error>>

\* lines 94-100: the loop is over, return the bundle
DensityReturn ==
    /\ fn = "lna_density2" /\ pc = "loop" /\ ~(j < n_times)
    /\ result' = [lna_path     |-> path.lna_path,
                  res_path     |-> path.res_path,
                  drift        |-> path.drift,
                  residual     |-> residual_process,
                  diffusion    |-> path.diffusion,
                  data_log_lik |-> path.data_log_lik,
                  lna_log_lik  |-> lna_log_lik]
    /\ pc' = "done"
    /\ UNCHANGED <<fn, lna_pars, param_update_inds, stoich_matrix, path, j,
                   current_params, ode_pars, init_state, init_volumes,
                   lna_state_vec, lna_drift, lna_diffusion, log_lna, nat_lna,
                   c_incid, lna_path, draws, residual_process, res_vec,
                   lna_log_lik, last_call, n_set, n_int, r_error>>

(***************************************************************************)
(* The specification.                                                      *)
(***************************************************************************)
Next ==
    \/ ProposeSetup
    \/ \E out \in IntegratorOut : ProposeIntegrate(out)
    \/ ProposeTransfer
    \/ ProposeChol
    \/ ProposeCholFail
    \/ ProposeIncrement
    \/ ProposeVolumes
    \/ ProposeReturn
    \/ DensitySetup
    \/ \E out \in DensityOut : DensityIntegrate(out)
    \/ DensityScore
    \/ DensityReturn

Spec == Init /\ [][Next]_vars

(***************************************************************************)
(* Properties.                                                             *)
(***************************************************************************)
Proposing  == fn = "propose_lna"
Evaluating == fn = "lna_density2"

\* 1-based columns of a parameter row that hold the compartment volumes
VolCols    == (init_start + 1)..init_end
NonVolCols == (1..Len(lna_pars[1])) \ VolCols

\* greatest 0-based index i <= k whose update flag is set, 0 if there is none
LastFlagged(k) ==
    LET S == {i \in 0..k : param_update_inds[i + 1]}
    IN  IF S = {} THEN 0 ELSE CHOOSE i \in S : \A m \in S : m <= i

NoFlagAfterZero == \A i \in 2..n_times : ~param_update_inds[i]

\* C1: in the path propose_lna returns, the cumulative incidence of every
\* event is 0 at time index 0 and never decreases from one time index to
\* the next.
C1_IncidenceNonDecreasing ==
    (Proposing /\ pc = "done") =>
        \A e \in 1..n_events :
            /\ result.lna_path[1][e + 1] = 0
            /\ \A t \in 1..(n_times - 1) :
                  result.lna_path[t + 1][e + 1] >= result.lna_path[t][e + 1]

\* a returned path with a rising step and, in the last interval, a negative
\* log increment that was clamped to a flat step
C1_Witness ==
    /\ Proposing /\ pc = "done"
    /\ \E e \in 1..n_events : result.lna_path[2][e + 1] > 0
    /\ \E e \in 1..n_events :
          /\ log_lna[e] < 0
          /\ result.lna_path[n_times][e + 1] = result.lna_path[n_times - 1][e + 1]

\* C2: during propose_lna no compartment volume is negative: neither in the
\* volume vector the proposer holds nor in the volume columns of the
\* parameter vector last pushed to the integrator.
C2_VolumesNonNegative ==
    (Proposing /\ pc # "start") =>
        /\ \A c \in 1..n_comps : init_volumes[c] >= 0
        /\ \A c \in VolCols : ode_pars[c] >= 0

\* a push after an interval in which the stoichiometry drove a compartment
\* below zero and the update flag reloaded a row with stale negative volumes
C2_Witness ==
    /\ Proposing /\ pc = "loop" /\ j >= 1
    /\ param_update_inds[j + 1]
    /\ \E c \in VolCols : lna_pars[j + 1][c] < 0
    /\ \E c \in 1..n_comps :
          VecAdd(init_state, MatVec(stoich_matrix, c_incid))[c] < 0

\* C3: once the Cholesky factorization of interval j has failed, propose_lna
\* has ended in the R error: it is not in the loop and has not returned, and
\* exactly the j+1 integrations and j+1 pushes made up to the failure have
\* happened; the steps after the factorization only run when it succeeded.
C3_CholeskyFailureAborts ==
    Proposing =>
        /\ r_error # "" =>
              /\ pc = "error"
              /\ chol_fails(lna_diffusion)
              /\ n_int = j + 1
              /\ n_set = j + 1
        /\ pc \in {"increment", "volumes"} => ~chol_fails(lna_diffusion)
        /\ pc = "chol" => r_error = ""

\* the factorization fails in the second interval, after a complete first one
C3_Witness ==
    /\ Proposing /\ pc = "error" /\ j = 1 /\ n_int = 2
    /\ lna_path[2][2] > 0

\* C4: lna_density2 returns lna_path, res_path, drift, diffusion and
\* data_log_lik as supplied and row 0 of residual as supplied, adds only
\* lna_log_lik, and each step after an integration overwrites exactly the
\* row of residual that belongs to the interval, with the residual part of
\* the integration result.
C4_OnlyResidualChanges ==
    /\ []((Evaluating /\ pc = "done") =>
            /\ result.lna_path = path.lna_path
            /\ result.res_path = path.res_path
            /\ result.drift = path.drift
            /\ result.diffusion = path.diffusion
            /\ result.data_log_lik = path.data_log_lik
            /\ result.residual[1] = path.residual[1]
            /\ Len(result.residual) = Len(path.residual)
            /\ DOMAIN result = DOMAIN path \cup {"lna_log_lik"})
    /\ [][(Evaluating /\ pc = "score") =>
            \A i \in 1..n_times :
                residual_process'[i] =
                    IF i = j + 1 THEN SubVec(lna_state_vec, n_comps, 2 * n_comps - 1)
                                 ELSE residual_process[i]]_vars
    /\ [][(Evaluating /\ pc \in {"loop", "done"}) =>
            residual_process' = residual_process]_vars

\* a returned bundle whose residual rows after the first all changed
C4_Witness ==
    /\ Evaluating /\ pc = "done"
    /\ \A i \in 2..n_times : result.residual[i] # path.residual[i]

\* C5: with no update flag set after index 0, every parameter vector
\* propose_lna pushes agrees with row 0 of the table outside the volume
\* columns, and after each interval its volume columns hold the volumes
\* computed from the cumulative incidence of that interval, clamped at 0.
C5_NoReloadWithoutFlag ==
    (Proposing /\ pc # "start" /\ NoFlagAfterZero) =>
        /\ \A c \in NonVolCols : ode_pars[c] = lna_pars[1][c]
        /\ (pc = "loop" /\ j >= 1) =>
              \A c \in 1..n_comps :
                 LET v == init_state[c] + Dot(stoich_matrix[c], c_incid)
                 IN  ode_pars[init_start + c] = IF v < 0 THEN 0 ELSE v

\* two intervals done without a reload, on a table whose rows differ, with
\* volumes that moved away from the initial ones
C5_Witness ==
    /\ Proposing /\ pc = "loop" /\ j = 2 /\ NoFlagAfterZero
    /\ \E c \in NonVolCols : lna_pars[2][c] # lna_pars[1][c]
    /\ \E c \in VolCols : ode_pars[c] # lna_pars[1][c]

\* C6: the matrix propose_lna hands to the Cholesky factorization is
\* symmetric.
C6_DiffusionSymmetric ==
    (Proposing /\ pc = "chol") =>
        \A r \in 1..n_events : \A c \in 1..n_events :
            lna_diffusion[r][c] = lna_diffusion[c][r]

\* the integrator left an asymmetric diffusion in the buffer
C6_Witness ==
    /\ Proposing /\ pc = "chol"
    /\ \E r \in 1..n_events : \E c \in 1..n_events :
          ColMajor(lna_state_vec, diff_start, n_events)[r][c]
              # ColMajor(lna_state_vec, diff_start, n_events)[c][r]

\* C7: at every integration, for the interval starting at time index k, the
\* integrator's parameter state is the table row of the last flagged index
\* at or before k (row 0 if there is none): in all columns for lna_density2,
\* outside the volume columns for propose_lna; a push came first.
C7_ParamsMatchLastFlagged ==
    (last_call.k >= 0) =>
        /\ n_set >= 1
        /\ Len(last_call.pars) = Len(lna_pars[1])
        /\ \A c \in (IF Evaluating THEN 1..Len(lna_pars[1]) ELSE NonVolCols) :
              last_call.pars[c] = lna_pars[LastFlagged(last_call.k) + 1][c]

\* lna_density2 integrates the second interval with row 1, reloaded from a
\* table whose rows differ
C7_Witness ==
    /\ Evaluating /\ last_call.k = 1
    /\ param_update_inds[2]
    /\ lna_pars[2] # lna_pars[1]
    /\ last_call.pars = lna_pars[2]

\* C8: lna_density2 hands the integrator an all-zero buffer for the first
\* interval, and for every later interval a buffer whose residual part is
\* the supplied residual path's value at the interval's start row.
C8_BufferHoldsObservedResidual ==
    (Evaluating /\ last_call.k >= 0) =>
        IF last_call.k = 0
            THEN last_call.buf = Zeros(2 * n_comps)
            ELSE SubVec(last_call.buf, n_comps, 2 * n_comps - 1)
                     = SubVec(path.res_path[last_call.k + 1], 1, n_comps)

\* a later interval whose buffer differs from what the integrator predicted
C8_Witness ==
    /\ Evaluating /\ last_call.k >= 1
    /\ SubVec(last_call.buf, n_comps, 2 * n_comps - 1) # residual_process[last_call.k + 1]

\* candidates for a lower Cholesky factor
FactorEntries == 0..2
LowerFactors(n) ==
    { L \in [1..n -> [1..n -> FactorEntries]] :
         \A r \in 1..n : /\ L[r][r] > 0
                         /\ \A c \in (r + 1)..n : L[r][c] = 0 }

\* C9: after the increment of interval j, each event's path entry at j+1 is
\* its entry at j plus max(exp(log increment) - 1, 0), the log increment
\* being drift + L * draws[:, j] for the lower factor L of the diffusion
\* (upper triangle of the integrator's result, mirrored); the buffer handed
\* to the integrator was all zero.
C9_ClampThenAccumulate ==
    (Proposing /\ pc = "volumes") =>
        /\ last_call.buf = Zeros(n_events + n_events * n_events)
        /\ \E L \in LowerFactors(n_events) :
              /\ \A r \in 1..n_events : \A c \in 1..r :
                    Dot(L[r], L[c]) = lna_state_vec[n_events + (r - 1) * n_events + c]
              /\ \A e \in 1..n_events :
                    LET lg  == lna_state_vec[e] + Dot(L[e], Col(draws, j + 1))
                        inc == ExpFix(lg) - Den
                    IN  lna_path[e + 1][j + 2] =
                            lna_path[e + 1][j + 1] + (IF inc < 0 THEN 0 ELSE inc)

\* second interval, positive running sum, a negative increment clamped away,
\* and a factor with an off-diagonal entry
C9_Witness ==
    /\ Proposing /\ pc = "volumes" /\ j = 1
    /\ lna_diffusion[2][1] # 0
    /\ \E e \in 1..n_events :
          /\ log_lna[e] < 0
          /\ lna_path[e + 1][j + 1] > 0
          /\ lna_path[e + 1][j + 2] = lna_path[e + 1][j + 1]

\* the integrator's result of the current interval is all zero
ZeroInterval ==
    /\ Proposing /\ pc \in {"chol", "error", "increment", "volumes"}
    /\ lna_state_vec = Zeros(n_events + n_events * n_events)

\* C10: when the integrator returns an all-zero drift and diffusion, the
\* interval's natural-scale increment is zero for every event and the path
\* row at its end equals the row at its start.
C10_ZeroIntervalKeepsRow ==
    ZeroInterval =>
        /\ pc # "error"
        /\ pc = "volumes" =>
              \A e \in 1..n_events :
                  /\ nat_lna[e] = 0
                  /\ lna_path[e + 1][j + 2] = lna_path[e + 1][j + 1]

====
